---- MODULE Spec2Model ----
(***************************************************************************)
(* A model of the dlpi crate (src/dlpi/src/lib.rs, with the older copy in   *)
(* src/src/lib.rs): the error decoding of libdlpi result codes, the         *)
(* lifecycle of a DLPI handle (open, copies, DropHandle, close), the        *)
(* synchronous operations, and the two asynchronous receives (the           *)
(* self-polling DlpiRecv future and the readiness-driven recv_async).       *)
(* libdlpi itself is the external collaborator: its primitives are modelled *)
(* from their declarations in sys.rs as nondeterministic outcomes.          *)
(***************************************************************************)
EXTENDS Integers, Sequences, FiniteSets, TLC

VARIABLES
    sess,         \* the native link instance behind the handle (dlpi_handle_t)
    queue,        \* frames delivered to the link and not yet received
    readable,     \* readiness of the descriptor as cached by the reactor
    errno,        \* the thread's last OS error (what Error::last_os_error reads)
    copies,       \* live copies of the DlpiHandle (it is Clone + Copy)
    dropHandles,  \* live DropHandle wrappers around the handle
    last,         \* the last synchronous operation, what it returned and wrote
    dec,          \* the last result code decoded by check_return
    prev,         \* the decode before it
    fut,          \* the self-polling DlpiRecv future
    ra            \* the readiness-driven recv_async operation

vars == <<sess, queue, readable, errno, copies, dropHandles, last, dec, prev, fut, ra>>

-----------------------------------------------------------------------------
(* Bounds of the model. *)

MaxCopies == 2        \* live copies of one handle
MaxDropHandles == 1   \* live DropHandle wrappers of one handle
MaxCloses == 2        \* dlpi_close calls counted on one session
MaxQueue == 1         \* frames waiting on the link
MaxMsgLen == 3        \* longest frame payload
MsgBufLen == 2        \* the caller's message buffer (shorter than MaxMsgLen: truncation)
MaxPolls == 3         \* polls of one DlpiRecv future
MaxRaw == 5           \* small result codes 0..MaxRaw offered to the decoder
MaxPad == 1           \* bytes of link padding added to a frame

-----------------------------------------------------------------------------
(* Program constants. *)

DLPI_SUCCESS == 10000
DL_SYSERR == 4
DLPI_PHYSADDR_MAX == 64
EINVAL == 22
EtherAddrLen == 6
EtherType == 16384

(* enum ResultCode: Success = 10000 and the following variants count up. *)
ResultCodeVariants ==
    << "Success", "EInval", "ELinkNameInval", "ENoLink", "EBadLink", "EInHandle",
       "ETimedout", "EVerNotSup", "EModeNotSup", "EUnavailSAP", "Failure",
       "ENotStyle2", "EBadMsg", "ERawNotSup", "ENoteInval", "ENoteNotSup",
       "ENoteIdInval", "EIpNetInfoNotSup", "ErrMax" >>

(* `rc as i32` *)
Discriminant(rc) ==
    DLPI_SUCCESS - 1 + (CHOOSE i \in 1..Len(ResultCodeVariants) : ResultCodeVariants[i] = rc)

(* std::io::Error values. Error::from_raw_os_error(code) and                *)
(* Error::last_os_error() both build the Os representation;                  *)
(* Error::new(ErrorKind::Other, rc) builds the Custom one.                   *)
OsError(code) == [repr |-> "Os", code |-> code, rc |-> "none"]
CustomError(rc) == [repr |-> "Custom", code |-> Discriminant(rc), rc |-> rc]
NoError == [repr |-> "None", code |-> 0, rc |-> "none"]

(* Result<T>: Ok carries its payload as a tuple, Err an io::Error. *)
Ok(v) == [ok |-> TRUE, val |-> v, err |-> NoError]
Err(e) == [ok |-> FALSE, val |-> <<>>, err |-> e]
NoResult == [ok |-> FALSE, val |-> <<>>, err |-> NoError]

(* A faulty variant of try_from: the last variant, ErrMax, is not recognised. *)
try_from_short(ret) ==
    IF \E i \in 1..(Len(ResultCodeVariants) - 1) : DLPI_SUCCESS - 1 + i = ret
    THEN Ok(<<ResultCodeVariants[ret - DLPI_SUCCESS + 1]>>)
    ELSE Err(NoError)

(* ResultCode::try_from(ret), derived by TryFromPrimitive. *)
try_from(ret) ==
    IF \E i \in 1..Len(ResultCodeVariants) : DLPI_SUCCESS - 1 + i = ret
    THEN Ok(<<ResultCodeVariants[ret - DLPI_SUCCESS + 1]>>)
    ELSE Err(NoError)

(* fn to_io_error(ret): e is the last OS error at the time of the call. *)
to_io_error(ret, e) ==
    IF ret = DL_SYSERR
    THEN OsError(e)
    ELSE IF try_from(ret).ok
         THEN CustomError(try_from(ret).val[1])
         ELSE OsError(ret)

(* fn check_return(ret) *)
check_return(ret, e) ==
    IF ret = Discriminant("Success") THEN Ok(<<>>) ELSE Err(to_io_error(ret, e))

DLPI_ETIMEDOUT_CODE == Discriminant("ETimedout")

-----------------------------------------------------------------------------
(* The collaborator, libdlpi (extern "C" in sys.rs). Each primitive is a set *)
(* of possible outcomes. A call on a closed (freed) handle is undefined      *)
(* behaviour: any outcome of the primitive may come back.                    *)

Errnos == {2, 13}
FailCodes == {DL_SYSERR, Discriminant("Failure")}
ValidFds == {3}
(* A message of n bytes, and a frame on the link: the bytes `wire` the sender *)
(* handed over followed by `pad` bytes of link padding; `sent` remembers the *)
(* message the sender meant.                                                 *)
Payload(n) == [i \in 1..n |-> i]
Frame(wire, pad, sent) ==
    [alen |-> EtherAddrLen, mlen |-> Len(wire) + pad,
     msg |-> wire \o [i \in 1..pad |-> 0], sent |-> sent]
Messages == {Payload(1), Payload(MaxMsgLen)}
Frames == {Frame(m, 0, m) : m \in Messages}
Min(a, b) == IF a < b THEN a ELSE b

NoSession == [state |-> "none", closes |-> 0, sap |-> 0, multi |-> FALSE]

(* The errno a call can leave: DL_SYSERR reports a fresh OS error. *)
ErrnoAfter(ret) == IF ret = DL_SYSERR THEN Errnos ELSE {errno}

(* dlpi_open, dlpi_send, dlpi_bind, dlpi_enabmulti, dlpi_disabmulti: a status. *)
StatusOutcomes(s) == {DLPI_SUCCESS} \cup FailCodes

(* dlpi_promiscon, dlpi_promiscoff: a status, or -1. *)
PromiscOutcomes(s) == {DLPI_SUCCESS, -1} \cup FailCodes

(* dlpi_fd: the descriptor of an open link, -1 for an invalid handle. *)
FdOutcomes(s) == IF s.state = "open" THEN ValidFds ELSE ValidFds \cup {-1}

(* dlpi_recv(dh, saddrp, &src_read, msgbuf, &msg_read, msec, recvp):        *)
(* src_read and msg_read go in as the buffer lengths and come back as the    *)
(* bytes written (`data` is what lands in msgbuf). With a frame waiting it   *)
(* is taken and the call succeeds;                                           *)
(* with none, msec >= 0 times out and msec < 0 blocks; any call may fail.    *)
RecvOutcomes(s, q, msec, srcLen, msgLen) ==
    LET taken == [ret |-> DLPI_SUCCESS, src_read |-> Min(Head(q).alen, srcLen),
                  msg_read |-> Min(Head(q).mlen, msgLen), queue |-> Tail(q),
                  data |-> SubSeq(Head(q).msg, 1, Min(Head(q).mlen, msgLen)),
                  sent |-> Head(q).sent]
        timedout == [ret |-> DLPI_ETIMEDOUT_CODE, src_read |-> srcLen,
                     msg_read |-> msgLen, queue |-> q, data |-> <<>>, sent |-> <<>>]
        failed == {[ret |-> f, src_read |-> srcLen, msg_read |-> msgLen, queue |-> q,
                    data |-> <<>>, sent |-> <<>>] : f \in FailCodes \cup {99999}}
    IN  IF s.state = "open"
        THEN failed \cup (IF q # <<>> THEN {taken} ELSE IF msec >= 0 THEN {timedout} ELSE {})
        ELSE failed \cup {timedout} \cup (IF q # <<>> THEN {taken} ELSE {})

(* dlpi_close(dh): releases the link instance. *)
dlpi_close(s) ==
    [s EXCEPT !.state = "closed", !.closes = s.closes + 1]

-----------------------------------------------------------------------------
(* Handles. DlpiHandle is a Copy wrapper of the raw pointer with no Drop;    *)
(* DropHandle(pub DlpiHandle) closes on drop.                                *)

HasHandle == copies > 0 \/ dropHandles > 0

NoOp == [op |-> "none", ret |-> 0, res |-> NoResult]
NoDecode == [ret |-> 0, errno |-> 0, res |-> NoResult]
NoAttempt == [ret |-> 0, src_read |-> 0, msg_read |-> 0, errno |-> 0, msec |-> 0]
NoFuture == [state |-> "none", lastPoll |-> "none", res |-> NoResult, att |-> NoAttempt,
             polls |-> 0, attempts |-> 0, woken |-> FALSE, sawOther |-> FALSE]
NoRecvAsync ==
    [state |-> "none", fd |-> NoResult, reported |-> FALSE,
     res |-> NoResult, att |-> NoAttempt, attempts |-> 0]

(* pub fn open(linkname, flags) -> Result<DlpiHandle> *)
Open ==
    /\ sess.state = "none"
    /\ \E ret \in StatusOutcomes(sess) :
          /\ errno' \in ErrnoAfter(ret)
          /\ last' = [op |-> "open", ret |-> ret,
                      res |-> IF check_return(ret, errno').ok
                              THEN Ok(<<>>) ELSE check_return(ret, errno')]
          /\ IF check_return(ret, errno').ok
             THEN sess' = [sess EXCEPT !.state = "open"] /\ copies' = 1
             ELSE UNCHANGED <<sess, copies>>
    /\ UNCHANGED <<queue, readable, dropHandles, dec, prev, fut, ra>>

(* #[derive(Clone, Copy)]: any holder can make another copy of the handle. *)
CopyHandle ==
    /\ HasHandle
    /\ copies < MaxCopies
    /\ copies' = copies + 1
    /\ UNCHANGED <<sess, queue, readable, errno, dropHandles, last, dec, prev, fut, ra>>

(* A copy going out of scope (a return, a `?`, a panic): DlpiHandle has no Drop. *)
ForgetHandle ==
    /\ copies > 0
    /\ copies' = copies - 1
    /\ UNCHANGED <<sess, queue, readable, errno, dropHandles, last, dec, prev, fut, ra>>

(* DropHandle(h): the field is public, any copy can be wrapped. *)
NewDropHandle ==
    /\ HasHandle
    /\ dropHandles < MaxDropHandles
    /\ dropHandles' = dropHandles + 1
    /\ UNCHANGED <<sess, queue, readable, errno, copies, last, dec, prev, fut, ra>>

(* pub fn close(h) *)
close(s) == dlpi_close(s)

Close ==
    /\ HasHandle
    /\ sess.closes < MaxCloses
    /\ sess' = close(sess)
    /\ last' = [op |-> "close", ret |-> 0, res |-> Ok(<<>>)]
    /\ UNCHANGED <<queue, readable, errno, copies, dropHandles, dec, prev, fut, ra>>

(* impl Drop for DropHandle: close(self.0) *)
DropHandle_drop ==
    /\ dropHandles > 0
    /\ sess.closes < MaxCloses
    /\ sess' = close(sess)
    /\ dropHandles' = dropHandles - 1
    /\ last' = [op |-> "drop", ret |-> 0, res |-> Ok(<<>>)]
    /\ UNCHANGED <<queue, readable, errno, copies, dec, prev, fut, ra>>

-----------------------------------------------------------------------------
(* The synchronous operations: one collaborator call, then check_return.     *)

Saps == {0, EtherType}
Timeouts == {-1, 0, 1}
Rest == <<dec, prev, fut, ra>>

(* The value of a status-only operation: check_return(ret)?; Ok(payload) *)
StatusResult(ret, e, payload) ==
    IF check_return(ret, e).ok THEN Ok(payload) ELSE check_return(ret, e)

(* pub fn bind(h, sap) -> Result<u32> *)
Bind ==
    /\ HasHandle
    /\ \E sap \in Saps, ret \in StatusOutcomes(sess) :
          /\ errno' \in ErrnoAfter(ret)
          /\ sess' = IF ret = DLPI_SUCCESS /\ sess.state = "open"
                     THEN [sess EXCEPT !.sap = sap] ELSE sess
          /\ last' = [op |-> "bind", ret |-> ret, res |-> StatusResult(ret, errno', <<sap>>)]
    /\ UNCHANGED <<queue, readable, copies, dropHandles>>
    /\ UNCHANGED Rest

(* The arguments send passes to dlpi_send: the destination and the message, *)
(* each as a pointer with its own length.                                    *)
send_marshal_short(dst, msg) ==
    [daddr |-> dst, daddrlen |-> Len(dst), msg |-> msg, msglen |-> Len(msg) - 1]

send_marshal(dst, msg) ==
    [daddr |-> dst, daddrlen |-> Len(dst), msg |-> msg, msglen |-> Len(msg)]

(* A faulty variant: a failed send releases the link before returning. *)
Send_ClosesOnError ==
    /\ HasHandle
    /\ \E ret \in StatusOutcomes(sess) :
          /\ errno' \in ErrnoAfter(ret)
          /\ last' = [op |-> "send", ret |-> ret, res |-> StatusResult(ret, errno', <<>>)]
          /\ sess' = IF last'.res.ok THEN sess ELSE close(sess)
    /\ UNCHANGED <<queue, readable, copies, dropHandles>>
    /\ UNCHANGED Rest

(* pub fn send(h, dst, msg, info) -> Result<()> *)
Send ==
    /\ HasHandle
    /\ \E ret \in StatusOutcomes(sess) :
          /\ errno' \in ErrnoAfter(ret)
          /\ last' = [op |-> "send", ret |-> ret, res |-> StatusResult(ret, errno', <<>>)]
    /\ UNCHANGED <<sess, queue, readable, copies, dropHandles>>
    /\ UNCHANGED Rest

(* pub fn recv(h, src, msg, msec, info) -> Result<(usize, usize)>: o is what *)
(* dlpi_recv returned and wrote, e the last OS error after the call.         *)
recv(o, e) ==
    IF check_return(o.ret, e).ok
    THEN Ok(<<o.src_read, o.msg_read>>)
    ELSE check_return(o.ret, e)

Recv ==
    /\ HasHandle
    /\ \E msec \in Timeouts :
          \E o \in RecvOutcomes(sess, queue, msec, DLPI_PHYSADDR_MAX, MsgBufLen) :
             /\ errno' \in ErrnoAfter(o.ret)
             /\ queue' = o.queue
             /\ last' = [op |-> "recv", ret |-> o.ret, res |-> recv(o, errno'),
                          msec |-> msec, data |-> o.data, sent |-> o.sent]
    /\ UNCHANGED <<sess, readable, copies, dropHandles>>
    /\ UNCHANGED Rest

(* pub fn enable_multicast(h, addr) -> Result<()> *)
EnableMulticast ==
    /\ HasHandle
    /\ \E ret \in StatusOutcomes(sess) :
          /\ errno' \in ErrnoAfter(ret)
          /\ sess' = IF ret = DLPI_SUCCESS /\ sess.state = "open"
                     THEN [sess EXCEPT !.multi = TRUE] ELSE sess
          /\ last' = [op |-> "enable_multicast", ret |-> ret,
                      res |-> StatusResult(ret, errno', <<>>)]
    /\ UNCHANGED <<queue, readable, copies, dropHandles>>
    /\ UNCHANGED Rest

(* pub fn disable_multicast(h, addr) -> Result<()> *)
DisableMulticast ==
    /\ HasHandle
    /\ \E ret \in StatusOutcomes(sess) :
          /\ errno' \in ErrnoAfter(ret)
          /\ sess' = IF ret = DLPI_SUCCESS /\ sess.state = "open"
                     THEN [sess EXCEPT !.multi = FALSE] ELSE sess
          /\ last' = [op |-> "disable_multicast", ret |-> ret,
                      res |-> StatusResult(ret, errno', <<>>)]
    /\ UNCHANGED <<queue, readable, copies, dropHandles>>
    /\ UNCHANGED Rest

(* match ret { -1 => Err(Error::from_raw_os_error(libc::EINVAL)), _ => Ok(()) } *)
PromiscResult(ret) == IF ret = -1 THEN Err(OsError(EINVAL)) ELSE Ok(<<>>)

(* pub fn promisc_on(h, level) -> Result<()>. The promiscuous level is kept  *)
(* inside the link instance; no operation of the crate reads it back.       *)
PromiscOn ==
    /\ HasHandle
    /\ \E ret \in PromiscOutcomes(sess) :
          /\ errno' \in ErrnoAfter(ret)
          /\ last' = [op |-> "promisc_on", ret |-> ret, res |-> PromiscResult(ret)]
    /\ UNCHANGED <<sess, queue, readable, copies, dropHandles>>
    /\ UNCHANGED Rest

(* pub fn promisc_off(h, level) -> Result<()> *)
PromiscOff ==
    /\ HasHandle
    /\ \E ret \in PromiscOutcomes(sess) :
          /\ errno' \in ErrnoAfter(ret)
          /\ last' = [op |-> "promisc_off", ret |-> ret, res |-> PromiscResult(ret)]
    /\ UNCHANGED <<sess, queue, readable, copies, dropHandles>>
    /\ UNCHANGED Rest

(* A faulty variant: the sentinel is handed back as a descriptor. *)
fd_unchecked(ret) == Ok(<<ret>>)

(* pub fn fd(h) -> Result<i32>: match ret { -1 => Err(EINVAL), _ => Ok(ret) } *)
fd(ret) == IF ret = -1 THEN Err(OsError(EINVAL)) ELSE Ok(<<ret>>)

Fd ==
    /\ HasHandle
    /\ \E ret \in FdOutcomes(sess) :
          last' = [op |-> "fd", ret |-> ret, res |-> fd(ret)]
    /\ UNCHANGED <<sess, queue, readable, errno, copies, dropHandles>>
    /\ UNCHANGED Rest

(* The peer link delivers a frame to the open session; a reactor that has    *)
(* the descriptor registered notes it readable.                              *)
FrameArrives ==
    /\ sess.state = "open"
    /\ Len(queue) < MaxQueue
    /\ \E f \in Frames : queue' = Append(queue, f)
    /\ readable' = IF ra.state = "WaitingForReadability" THEN TRUE ELSE readable
    /\ UNCHANGED <<sess, errno, copies, dropHandles, last>>
    /\ UNCHANGED Rest

(* The loopback of the test: a second session on the peer link, bound to    *)
(* xsap, sends m to the group address. The link delivers the frame to this   *)
(* session when it is open, bound to the same selector and has the group     *)
(* enabled; the link may pad a short frame (the test expects n >= len).      *)
GroupAddr == <<255, 255, 0, 0, 0, 71>>

LoopbackSend ==
    /\ Len(queue) < MaxQueue
    /\ \E xsap \in Saps \ {0}, m \in Messages, pad \in 0..MaxPad :
          LET a == send_marshal(GroupAddr, m)
              wire == SubSeq(a.msg, 1, a.msglen)
          IN  IF /\ sess.state = "open"
                 /\ sess.sap = xsap
                 /\ sess.multi
                 /\ SubSeq(a.daddr, 1, a.daddrlen) = GroupAddr
              THEN /\ queue' = Append(queue, Frame(wire, pad, m))
                   /\ readable' = IF ra.state = "WaitingForReadability"
                                  THEN TRUE ELSE readable
              ELSE UNCHANGED <<queue, readable>>
    /\ UNCHANGED <<sess, errno, copies, dropHandles, last>>
    /\ UNCHANGED Rest

-----------------------------------------------------------------------------
(* The lifecycle of one handle and the synchronous operations on it. *)

Init ==
    /\ sess = NoSession
    /\ queue = <<>>
    /\ readable = FALSE
    /\ errno \in Errnos
    /\ copies = 0
    /\ dropHandles = 0
    /\ last = NoOp
    /\ dec = NoDecode
    /\ prev = NoDecode
    /\ fut = NoFuture
    /\ ra = NoRecvAsync

Next ==
    \/ Open
    \/ CopyHandle
    \/ ForgetHandle
    \/ NewDropHandle
    \/ Close
    \/ DropHandle_drop
    \/ Bind
    \/ Send
    \/ Recv
    \/ EnableMulticast
    \/ DisableMulticast
    \/ PromiscOn
    \/ PromiscOff
    \/ Fd
    \/ FrameArrives

Spec == Init /\ [][Next]_vars

(* C1: the collaborator's close primitive is invoked at most once for each   *)
(* successfully opened session, whatever copies of the handle exist and      *)
(* however explicit close calls and DropHandle drops are mixed.              *)
C1_CloseAtMostOnce == sess.closes <= 1

(* C2: every session that open returned is closed on every exit path of the  *)
(* caller: once no copy of the handle and no DropHandle is left (the caller  *)
(* has returned, early or not), close has been invoked for the session.      *)
C2_ClosedWhenCallerLeaves ==
    (sess.state # "none" /\ copies = 0 /\ dropHandles = 0) => sess.closes >= 1

-----------------------------------------------------------------------------
(* The decoder on its own: check_return applied to result codes around every *)
(* boundary of its case analysis.                                            *)

DecodeCodes ==
    {-1, 99999} \cup (0..MaxRaw)
        \cup ((DLPI_SUCCESS - 1)..(Discriminant("ErrMax") + 1))

CheckReturn ==
    /\ \E ret \in DecodeCodes :
          /\ errno' \in ErrnoAfter(ret)
          /\ dec' = [ret |-> ret, errno |-> errno', res |-> check_return(ret, errno')]
    /\ prev' = dec
    /\ UNCHANGED <<sess, queue, readable, copies, dropHandles, last, fut, ra>>

NextDecode == CheckReturn

SpecDecode == Init /\ [][NextDecode]_vars

(* C3: every result code decodes to exactly one outcome, in this order:      *)
(* 10000 is success and builds no error; else DL_SYSERR (4) is the system    *)
(* error wrapping the last OS error, never a provider error; else a code in  *)
(* 10001..10018 is that provider error kind; else the code comes back        *)
(* verbatim as a raw error.                                                  *)
C3_DecodingOrder ==
    dec # NoDecode =>
        IF dec.ret = 10000
        THEN dec.res.ok /\ dec.res.err = NoError
        ELSE IF dec.ret = 4
        THEN /\ ~dec.res.ok
             /\ dec.res.err = [repr |-> "Os", code |-> dec.errno, rc |-> "none"]
        ELSE IF dec.ret \in 10001..10018
        THEN /\ ~dec.res.ok
             /\ dec.res.err.repr = "Custom"
             /\ dec.res.err.code = dec.ret
             /\ dec.res.err.rc = ResultCodeVariants[dec.ret - 9999]
        ELSE /\ ~dec.res.ok
             /\ dec.res.err = [repr |-> "Os", code |-> dec.ret, rc |-> "none"]

(* The decoder has met the system-error sentinel and then an out-of-range    *)
(* code, which came back verbatim.                                           *)
C3_Witness ==
    /\ prev.ret = DL_SYSERR /\ prev.res.err.repr = "Os"
    /\ dec.ret = 99999 /\ dec.res.err.code = 99999

(* The kind the taxonomy gives a failing result code. *)
ClaimedKind(ret) ==
    IF ret = DL_SYSERR THEN "SystemError"
    ELSE IF ret \in 10001..10018 THEN "ProviderError"
    ELSE "RawError"

(* C4: the error kind is recoverable from the error value: two errors of     *)
(* different kinds (system, provider, raw) are different values, for every   *)
(* unrecognised code and every last OS error.                                *)
C4_KindsDistinguishable ==
    (/\ dec # NoDecode /\ ~dec.res.ok
     /\ prev # NoDecode /\ ~prev.res.ok
     /\ ClaimedKind(dec.ret) # ClaimedKind(prev.ret))
        => dec.res.err # prev.res.err

-----------------------------------------------------------------------------
(* The self-polling receive: struct DlpiRecv and its Future::poll            *)
(* (src/dlpi/src/lib.rs and src/src/lib.rs agree on it).                     *)

PollTimeoutBlocking == -1

(* The msec argument of poll's dlpi_recv call: `0, // non blocking`. *)
PollTimeout == 0

(* The msec argument recv_async gives recv: `0, // non blocking`. *)
RecvAsyncTimeout == 0

(* What dlpi_recv returned and wrote, the errno after it, and the msec passed. *)
Attempt(o, e, msec) ==
    [ret |-> o.ret, src_read |-> o.src_read, msg_read |-> o.msg_read,
     errno |-> e, msec |-> msec]

(* A faulty variant: a Timeout is not re-armed, the task would never be polled again. *)
PollOutcome_NoWake(o, e) ==
    IF o.ret = Discriminant("Success")
    THEN [poll |-> "Ready", res |-> Ok(<<o.src_read, o.msg_read>>), wake |-> FALSE]
    ELSE IF o.ret = Discriminant("ETimedout")
    THEN [poll |-> "Pending", res |-> NoResult, wake |-> FALSE]
    ELSE [poll |-> "Ready", res |-> Err(to_io_error(o.ret, e)), wake |-> FALSE]

(* A faulty variant: a Timeout is decoded like any other failure, as recv does. *)
PollOutcome_TimeoutIsError(o, e) ==
    IF o.ret = Discriminant("Success")
    THEN [poll |-> "Ready", res |-> Ok(<<o.src_read, o.msg_read>>), wake |-> FALSE]
    ELSE [poll |-> "Ready", res |-> Err(to_io_error(o.ret, e)), wake |-> FALSE]

(* A faulty variant: a failure is wrapped raw, without to_io_error's decoding. *)
PollOutcome_RawErrors(o, e) ==
    IF o.ret = Discriminant("Success")
    THEN [poll |-> "Ready", res |-> Ok(<<o.src_read, o.msg_read>>), wake |-> FALSE]
    ELSE IF o.ret = Discriminant("ETimedout")
    THEN [poll |-> "Pending", res |-> NoResult, wake |-> TRUE]
    ELSE [poll |-> "Ready", res |-> Err(OsError(o.ret)), wake |-> FALSE]

(* The tail of poll: the Poll value for what dlpi_recv returned, and whether *)
(* cx.waker().wake_by_ref() was called.                                      *)
PollOutcome(o, e) ==
    IF o.ret = Discriminant("Success")
    THEN [poll |-> "Ready", res |-> Ok(<<o.src_read, o.msg_read>>), wake |-> FALSE]
    ELSE IF o.ret = Discriminant("ETimedout")
    THEN [poll |-> "Pending", res |-> NoResult, wake |-> TRUE]
    ELSE [poll |-> "Ready", res |-> Err(to_io_error(o.ret, e)), wake |-> FALSE]

(* src/src/lib.rs: pub fn recv_async(h, src, msg, info) -> DlpiRecv *)
NewDlpiRecv ==
    /\ HasHandle
    /\ fut.state = "none"
    /\ fut' = [fut EXCEPT !.state = "live"]
    /\ UNCHANGED <<sess, queue, readable, errno, copies, dropHandles, last, dec, prev, ra>>

(* <DlpiRecv as Future>::poll. The struct keeps no record of having          *)
(* resolved: every poll of a live future makes the call.                     *)
Poll ==
    /\ fut.state = "live"
    /\ fut.polls < MaxPolls
    /\ \E o \in RecvOutcomes(sess, queue, PollTimeout, DLPI_PHYSADDR_MAX, MsgBufLen) :
             /\ errno' \in ErrnoAfter(o.ret)
             /\ queue' = o.queue
             /\ fut' = [fut EXCEPT !.lastPoll = PollOutcome(o, errno').poll,
                                   !.res = PollOutcome(o, errno').res,
                                   !.woken = PollOutcome(o, errno').wake,
                                   !.att = Attempt(o, errno', PollTimeout),
                                   !.polls = @ + 1,
                                   !.attempts = @ + 1,
                                   !.sawOther = @ \/ o.ret # Discriminant("ETimedout")]
    /\ UNCHANGED <<sess, readable, copies, dropHandles, last, dec, prev, ra>>

(* A faulty variant: dropping the future closes the handle, as DropHandle does. *)
DlpiRecv_drop_closes(s) == close(s)

(* Dropping a DlpiRecv: no Drop impl; its fields are a Copy handle and       *)
(* borrowed buffers. The session is what it was.                             *)
DlpiRecv_drop(s) == s

DropDlpiRecv ==
    /\ fut.state = "live"
    /\ fut' = [fut EXCEPT !.state = "dropped"]
    /\ sess' = DlpiRecv_drop(sess)
    /\ UNCHANGED <<queue, readable, errno, copies, dropHandles, last, dec, prev, ra>>

-----------------------------------------------------------------------------
(* The readiness-driven receive: pub async fn recv_async                     *)
(* (src/dlpi/src/lib.rs).                                                    *)

(* let afd = AsyncFd::new(fd(h)?)?;  The descriptor is registered with the   *)
(* reactor, which reports the readiness it has at registration.              *)
RecvAsyncStart ==
    /\ HasHandle
    /\ ra.state = "none"
    /\ \E d \in FdOutcomes(sess), registered \in BOOLEAN :
          IF ~fd(d).ok
          THEN /\ ra' = [ra EXCEPT !.state = "Ready", !.fd = fd(d), !.res = fd(d)]
               /\ UNCHANGED readable
          ELSE IF ~registered
          THEN /\ ra' = [ra EXCEPT !.state = "Ready", !.fd = fd(d),
                                      !.res = Err(OsError(errno))]
               /\ UNCHANGED readable
          ELSE /\ ra' = [ra EXCEPT !.state = "WaitingForReadability", !.fd = fd(d)]
               /\ readable' = (queue # <<>>)
    /\ UNCHANGED <<sess, queue, errno, copies, dropHandles, last, dec, prev, fut>>

(* A faulty variant: the task runs on without waiting for the reactor. *)
ReadableIgnored(r) == TRUE

(* afd.readable().await: the task resumes once the reactor has reported the  *)
(* descriptor readable.                                                      *)
ReadableReported(r) == r

(* let mut _guard = afd.readable().await?;  recv(h, src, msg, 0, info)       *)
(* The readiness guard is not cleared, and recv's value is the value of the  *)
(* async fn whatever it is.                                                  *)
RecvAsyncWake ==
    /\ ra.state = "WaitingForReadability"
    /\ ReadableReported(readable)
    /\ \E o \in RecvOutcomes(sess, queue, RecvAsyncTimeout, DLPI_PHYSADDR_MAX, MsgBufLen) :
             /\ errno' \in ErrnoAfter(o.ret)
             /\ queue' = o.queue
             /\ ra' = [ra EXCEPT !.state = "Ready",
                                 !.reported = readable,
                                 !.res = recv(o, errno'),
                                 !.att = Attempt(o, errno', RecvAsyncTimeout),
                                 !.attempts = @ + 1]
    /\ UNCHANGED <<sess, readable, copies, dropHandles, last, dec, prev, fut>>

(* Dropping the suspended async fn drops its AsyncFd<i32>: the descriptor is *)
(* deregistered; the inner value is a plain integer and is not closed.       *)
AsyncFd_drop(s) == s

DropRecvAsync ==
    /\ ra.state = "WaitingForReadability"
    /\ ra' = [ra EXCEPT !.state = "dropped"]
    /\ sess' = AsyncFd_drop(sess)
    /\ readable' = FALSE
    /\ UNCHANGED <<queue, errno, copies, dropHandles, last, dec, prev, fut>>

(* Another receiver on the same session (another thread's dlpi_recv) takes   *)
(* the frame at the head of the queue; its result is its own.                *)
OtherReceiverTakes ==
    /\ sess.state = "open"
    /\ queue # <<>>
    /\ queue' = Tail(queue)
    /\ UNCHANGED <<sess, readable, errno, copies, dropHandles, last, dec, prev, fut, ra>>

(* An open, bound session with multicast enabled, held by one handle. *)
InitAsync ==
    /\ sess = [state |-> "open", closes |-> 0, sap |-> EtherType,
               multi |-> TRUE]
    /\ queue = <<>>
    /\ readable = FALSE
    /\ errno \in Errnos
    /\ copies = 1
    /\ dropHandles = 0
    /\ last = [op |-> "enable_multicast", ret |-> DLPI_SUCCESS, res |-> Ok(<<>>)]
    /\ dec = NoDecode
    /\ prev = NoDecode
    /\ fut = NoFuture
    /\ ra = NoRecvAsync

NextAsync ==
    \/ NewDlpiRecv
    \/ Poll
    \/ DropDlpiRecv
    \/ RecvAsyncStart
    \/ RecvAsyncWake
    \/ DropRecvAsync
    \/ FrameArrives
    \/ OtherReceiverTakes
    \/ Close

SpecAsync == InitAsync /\ [][NextAsync]_vars

(* C5: each poll of the self-polling future issues exactly one receive       *)
(* attempt; on success it returns Ready with that attempt's address and      *)
(* message byte counts, on the Timeout code it signals the waker and returns *)
(* Pending, on anything else it returns Ready with the decoded error.        *)
C5_PollOneAttempt ==
    fut.polls > 0 =>
        /\ fut.attempts = fut.polls
        /\ IF fut.att.ret = 10000
           THEN /\ fut.lastPoll = "Ready"
                /\ fut.res = Ok(<<fut.att.src_read, fut.att.msg_read>>)
           ELSE IF fut.att.ret = 10006
           THEN fut.lastPoll = "Pending" /\ fut.woken
           ELSE /\ fut.lastPoll = "Ready"
                /\ fut.res = Err(to_io_error(fut.att.ret, fut.att.errno))

(* A future that was Pending on one poll and took a truncated frame on the   *)
(* next.                                                                     *)
C5_Witness ==
    /\ fut.polls = 2 /\ fut.sawOther
    /\ fut.lastPoll = "Ready" /\ fut.res = Ok(<<EtherAddrLen, MsgBufLen>>)

(* C6: if every receive attempt reports Timeout, the future is Pending after *)
(* every poll and has resolved to nothing, however often it is polled.       *)
C6_PendingWhileNoFrame ==
    (fut.polls > 0 /\ ~fut.sawOther) => (fut.lastPoll = "Pending" /\ fut.res = NoResult)

(* The future has been polled as often as the model allows, always Timeout. *)
C6_Witness ==
    fut.polls = MaxPolls /\ ~fut.sawOther /\ fut.att.ret = DLPI_ETIMEDOUT_CODE

(* C7: in recv_async, when the descriptor was reported readable and the one  *)
(* attempt finds no data, the operation is waiting for readability again: it *)
(* has not resolved with an error. (Stated for a session nobody closed.)     *)
C7_SpuriousWakeupWaitsAgain ==
    (sess.closes = 0 /\ ra.attempts > 0 /\ ra.att.ret = DLPI_ETIMEDOUT_CODE)
        => ra.state = "WaitingForReadability"

(* C8: every receive attempt of either asynchronous strategy passes timeout  *)
(* 0, and a task never has more attempts than scheduling steps: one per poll *)
(* of the future, one per readable report of recv_async.                     *)
C8_AsyncAttemptsNonBlocking ==
    /\ fut.attempts > 0 => fut.att.msec = 0
    /\ ra.attempts > 0 => ra.att.msec = 0
    /\ fut.attempts <= fut.polls
    /\ ra.attempts <= 1

(* Both strategies have made attempts. *)
C8_Witness == fut.attempts >= 2 /\ ra.attempts = 1 /\ ra.state = "Ready"

(* C9: dropping an asynchronous receive that has not resolved leaves the     *)
(* session as it was: still open, selector and filters unchanged, descriptor *)
(* valid, no frame consumed.                                                 *)
C9_DropLeavesSession ==
    [][ ( \/ fut.state = "live" /\ fut.lastPoll # "Ready" /\ fut'.state = "dropped"
          \/ ra.state = "WaitingForReadability" /\ ra'.state = "dropped" )
        => /\ sess' = sess
           /\ queue' = queue
           /\ FdOutcomes(sess') = FdOutcomes(sess) ]_vars

(* Both receives were dropped while pending, on an open session with a frame *)
(* still waiting.                                                            *)
C9_Witness ==
    /\ fut.state = "dropped" /\ fut.lastPoll = "Pending"
    /\ ra.state = "dropped"
    /\ sess.state = "open" /\ queue # <<>>

(* C10: the value an asynchronous receive resolves to is the value recv      *)
(* returns for the same collaborator result: counts on success, translated   *)
(* error on failure, for the future and for recv_async.                      *)
C10_AsyncEqualsRecv ==
    /\ fut.lastPoll = "Ready" => fut.res = recv(fut.att, fut.att.errno)
    /\ (ra.state = "Ready" /\ ra.attempts > 0) => ra.res = recv(ra.att, ra.att.errno)

(* The future resolved with a decoded system error, recv_async with a frame. *)
C10_Witness ==
    /\ fut.lastPoll = "Ready" /\ fut.att.ret = DL_SYSERR /\ fut.res.err.repr = "Os"
    /\ ra.state = "Ready" /\ ra.res.ok


-----------------------------------------------------------------------------
(* The loopback round trip: this session is the receiver Y, the peer link's  *)
(* session X sends to the group address.                                     *)

NextLoop ==
    \/ Open
    \/ Bind
    \/ EnableMulticast
    \/ DisableMulticast
    \/ LoopbackSend
    \/ Recv

SpecLoop == Init /\ [][NextLoop]_vars

(* A blocking receive that returned a frame into a buffer large enough for   *)
(* the message that was sent.                                                *)
BlockingRecvReturned ==
    /\ last.op = "recv"
    /\ last.res.ok
    /\ last.msec < 0
    /\ Len(last.sent) <= MsgBufLen

(* C11 as stated: the blocking receive on Y returns a message byte count     *)
(* equal to len(M) and the received bytes equal M byte for byte.             *)
C11_RoundTripExact ==
    BlockingRecvReturned =>
        /\ last.res.val[2] = Len(last.sent)
        /\ last.data = last.sent

(* C11 amended: the blocking receive on Y returns a message byte count of at *)
(* least len(M), all of it written to the buffer, and the first len(M)       *)
(* received bytes equal M byte for byte; the link may have padded the frame. *)
C11_RoundTripPrefix ==
    BlockingRecvReturned =>
        /\ last.res.val[2] >= Len(last.sent)
        /\ Len(last.data) = last.res.val[2]
        /\ SubSeq(last.data, 1, Len(last.sent)) = last.sent

C11_Witness ==
    /\ BlockingRecvReturned
    /\ last.sent = Payload(1)
    /\ last.res.val[2] = Len(last.sent) + MaxPad


-----------------------------------------------------------------------------
(* C12: fd returns the invalid-argument error exactly when dlpi_fd reported  *)
(* the sentinel -1, otherwise it returns dlpi_fd's value unchanged, and a    *)
(* successful descriptor is never negative.                                  *)
C12_FdChecksSentinel ==
    last.op = "fd" =>
        /\ (~last.res.ok) <=> (last.ret = -1)
        /\ ~last.res.ok => last.res.err = OsError(EINVAL)
        /\ last.res.ok => last.res.val = <<last.ret>> /\ last.res.val[1] >= 0

C12_Witness ==
    /\ last.op = "fd"
    /\ last.ret = -1
    /\ last.res = Err(OsError(EINVAL))


-----------------------------------------------------------------------------
(* C13: recv_async obtains the descriptor first and, if that fails, resolves *)
(* with that error without a receive attempt; it issues no attempt before    *)
(* the reactor has reported the descriptor readable; and a readable report   *)
(* is followed by exactly one attempt, made with a zero timeout.             *)
C13_RecvAsyncOrder ==
    /\ ra.state # "none" => ra.fd # NoResult
    /\ (ra.fd # NoResult /\ ~ra.fd.ok) =>
          ra.state = "Ready" /\ ra.res = ra.fd /\ ra.attempts = 0
    /\ ra.attempts > 0 => ra.fd.ok /\ ra.reported /\ ra.att.msec = 0
    /\ ra.state = "WaitingForReadability" => ra.attempts = 0
    /\ ra.reported => ra.attempts = 1

C13_Witness ==
    /\ ra.state = "Ready"
    /\ ra.fd.ok
    /\ ra.reported
    /\ ra.attempts = 1


-----------------------------------------------------------------------------
(* C14: Ready is terminal: once a poll of a DlpiRecv future has returned     *)
(* Ready, no later poll of that future issues another receive attempt or     *)
(* takes another frame from the session.                                     *)
C14_ReadyIsTerminal ==
    [][(fut.state = "live" /\ fut.lastPoll = "Ready" /\ fut'.polls > fut.polls)
          => (fut'.attempts = fut.attempts /\ queue' = queue)]_vars


-----------------------------------------------------------------------------
(* The self-polling receive under a fair scheduler: a task whose waker was   *)
(* signalled is polled again.                                                *)

NextLive ==
    \/ NewDlpiRecv
    \/ Poll
    \/ DropDlpiRecv
    \/ FrameArrives
    \/ OtherReceiverTakes

WokenPoll == fut.woken /\ Poll

SpecLive == InitAsync /\ [][NextLive]_vars /\ WF_vars(WokenPoll)

(* The byte counts recv reports for frame f. *)
FrameCounts(f) == <<Min(f.alen, DLPI_PHYSADDR_MAX), Min(f.mlen, MsgBufLen)>>

(* Frame f is waiting while the live future's last poll was Pending. *)
PendingWithFrame(f) ==
    /\ fut.state = "live"
    /\ fut.lastPoll = "Pending"
    /\ fut.polls < MaxPolls
    /\ queue # <<>>
    /\ Head(queue) = f

(* The future resolved with f's counts (or with the error of a failed        *)
(* attempt), was dropped, or f left the queue before the next attempt.       *)
ResolvedOrGone(f) ==
    \/ fut.state = "dropped"
    \/ fut.lastPoll = "Ready" /\ (fut.res.ok => fut.res.val = FrameCounts(f))
    \/ fut.lastPoll = "Pending" /\ (queue = <<>> \/ Head(queue) # f)

(* C15: no wakeup is lost: every poll that returned Pending signalled the    *)
(* waker in that poll; under a fair scheduler a Pending future is polled     *)
(* again; and a frame that is waiting and stays until the next attempt makes *)
(* the future resolve, a successful resolution carrying that frame's counts. *)
C15_NoLostWakeup ==
    /\ [](fut.lastPoll = "Pending" => fut.woken)
    /\ \A k \in 0..(MaxPolls - 1) :
          (fut.state = "live" /\ fut.lastPoll = "Pending" /\ fut.polls = k)
             ~> (fut.polls > k \/ fut.state = "dropped")
    /\ \A f \in Frames : PendingWithFrame(f) ~> ResolvedOrGone(f)
    /\ [][(fut'.polls > fut.polls /\ queue # <<>> /\ fut'.res.ok)
             => fut'.res.val = FrameCounts(Head(queue))]_vars

C15_Witness ==
    /\ fut.state = "live"
    /\ fut.lastPoll = "Pending"
    /\ fut.woken
    /\ fut.polls >= 1
    /\ queue # <<>>


-----------------------------------------------------------------------------
(* The operations that report failure through their Result. *)
FailableOps ==
    {"bind", "send", "recv", "enable_multicast", "disable_multicast",
     "promisc_on", "promisc_off", "fd"}

FailedOp(l) == l.op \in FailableOps /\ ~l.res.ok

(* C16: a failed operation does not change the lifecycle: a step on an open  *)
(* session that ends with a failed bind, send, recv, multicast or            *)
(* promiscuous toggle or fd leaves the session open with close not invoked,  *)
(* a close that follows releases the resource exactly once, and after a      *)
(* failed open there is no session and no handle to close.                   *)
C16_FailureKeepsLifecycle ==
    /\ []((last.op = "open" /\ ~last.res.ok) => (sess = NoSession /\ ~HasHandle))
    /\ [][(sess.state = "open" /\ FailedOp(last'))
             => (sess'.state = "open" /\ sess'.closes = sess.closes)]_vars
    /\ [][(sess.state = "open" /\ sess.closes = 0 /\ FailedOp(last)
              /\ last'.op \in {"close", "drop"})
             => (sess'.state = "closed" /\ sess'.closes = 1)]_vars

C16_Witness ==
    /\ FailedOp(last)
    /\ sess.state = "open"
    /\ sess.closes = 0


-----------------------------------------------------------------------------
(* C17: no collaborator primitive (send, receive, bind, multicast or         *)
(* promiscuous toggle, descriptor) is invoked on a session after close has   *)
(* been invoked on it, whichever holder of a copy of the handle acts.        *)
C17_NoUseAfterClose == sess.state = "closed" => last.op \notin FailableOps

====
